---- MODULE Spec2Model ----
(***************************************************************************)
(* Dialogue core of the Vaiu Bistro voice booking agent: the /api/chat     *)
(* turn handler of the server (three revisions of it are in the            *)
(* repository), the chat client that carries the history, and the          *)
(* bookings collection.                                                    *)
(*                                                                         *)
(* Values.  A JavaScript value that may be null or undefined is the empty  *)
(* sequence Null or the one-element sequence Some(v).  A text is a         *)
(* sequence of string fragments whose concatenation is the JavaScript      *)
(* string; toLowerCase and includes are computed fragment by fragment.     *)
(***************************************************************************)
EXTENDS Integers, Sequences, FiniteSets, TLC

VARIABLES
    build,          \* which revision of the server is running
    turns,          \* per chat request: the server-side handler's state
    nextReq,        \* id of the next chat request
    client,         \* which chat component the browser runs
    hasTTS,         \* window.speechSynthesis exists
    session,        \* number of chat sessions started so far
    view,           \* 'home' | 'chat' | 'details' (the route, for Chat)
    messages,       \* useState: the message list
    bookingDetails, \* useState: the snapshot
    snapTurn,       \* history variable: the request whose response set the snapshot
    status,         \* useState: 'idle' | 'listening' | 'processing' | 'speaking' | 'error'
    isListening,    \* useState
    userLocation,   \* useState: null or {lat, lon}
    rec,            \* the running SpeechRecognition and what its handlers closed over
    awaiting,       \* chat requests whose response the client has not handled
    tts,            \* the utterance handed to speechSynthesis: 'off' | 'queued' | 'speaking'
    saves,          \* POST /api/bookings requests, in issue order
    bookings,       \* the bookings collection
    timers,         \* pending setTimeout redirects
    booking         \* useState of the BookingDetails page: the record fetched by id

srvVars == <<build, turns, nextReq>>
cliVars == <<client, hasTTS, session, view, messages, bookingDetails, snapTurn, status,
             isListening, userLocation, rec, awaiting, tts, saves, bookings, timers,
             booking>>
vars == <<srvVars, cliVars>>

-----------------------------------------------------------------------------
(* Bounds *)

MaxReq == 2         \* chat requests in one behaviour
MaxSaves == 2       \* create-booking requests in one behaviour
MaxSessions == 2    \* chat sessions started in one behaviour (SpecSessions)
MaxHist == 2        \* length of a caller-supplied history (SpecWeather)
MaxList == 2        \* entries in a forecast answer (SpecWeather)

ReqIds == 1..MaxReq

-----------------------------------------------------------------------------
(* null / undefined *)

Null == <<>>
Some(v) == <<v>>

\* JavaScript truthiness of a string-or-null and of a number-or-null
TruthyStr(o) == o # Null /\ o[1] # ""
TruthyNum(o) == o # Null /\ o[1] # 0

-----------------------------------------------------------------------------
(* Strings *)

\* String.prototype.toLowerCase on the fragments the model uses
LowerStr(s) ==
    CASE s = "Weather" -> "weather"
      [] s = "FORECAST" -> "forecast"
      [] s = "Hello" -> "hello"
      [] s = "Okay" -> "okay"
      [] s = "Book" -> "book"
      [] s = "The" -> "the"
      [] s = " By the way, the " -> " by the way, the "
      [] s = " I recommend indoor seating." -> " i recommend indoor seating."
      [] s = " Since it looks like rain, I'd recommend indoor seating."
            -> " since it looks like rain, i'd recommend indoor seating."
      [] s = " It's going to be sunny, so outdoor seating would be lovely!"
            -> " it's going to be sunny, so outdoor seating would be lovely!"
      [] s = "C." -> "c."
      [] OTHER -> s

\* proper substrings among the fragments the model uses: <<haystack, needle>>
Substrings ==
    { <<"light rain", "rain">>, <<"rainy", "rain">>,
      <<"weatherproof", "weather">>,
      <<" Since it looks like rain, I'd recommend indoor seating.", "rain">>,
      <<" since it looks like rain, i'd recommend indoor seating.", "rain">>,
      <<"2024-06-02 12:00:00", "2024-06-02">>,
      <<"2024-06-02 15:00:00", "2024-06-02">>,
      <<"2024-06-03 12:00:00", "2024-06-03">> }

\* String.prototype.includes
StrIncludes(s, sub) == s = sub \/ <<s, sub>> \in Substrings

ToLowerCase(text) == [i \in 1..Len(text) |-> LowerStr(text[i])]

TextIncludes(text, sub) == \E i \in 1..Len(text) : StrIncludes(text[i], sub)

\* String.prototype.trim() === "" : every fragment is white space
IsBlank(text) == \A i \in 1..Len(text) : text[i] \in {" ", ""}

\* Math.round on a temperature held in tenths of a degree: nearest integer,
\* halves towards +Infinity
MathRound(t) == (t + 5) \div 10

-----------------------------------------------------------------------------
(* Data model *)

Slots == {"name", "date", "time", "guests", "seating", "cuisine", "specialRequests"}

\* the parsed extraction reply; a missing field is Null
NoAi == [reply |-> Null, bookingDetails |-> Null, intent |-> Null]

NoReq == [message |-> Null, history |-> Null, userLocation |-> Null]

Msg(sender, text) == [sender |-> sender, text |-> text]

Today == "2024-06-01"

Builds == {"index", "part_000", "part_002"}

-----------------------------------------------------------------------------
(* Context Builder *)

\* history.map(msg => role + ': ' + msg.text), the role being User for sender
\* 'user' and Agent for every other sender
ConversationContext(history) ==
    IF history # Null /\ Len(history[1]) > 0
    THEN [i \in 1..Len(history[1]) |->
            <<IF history[1][i].sender = "user" THEN "User" ELSE "Agent",
              history[1][i].text>>]
    ELSE <<>>

SystemPrompt(req) ==
    [today |-> Today,
     context |-> ConversationContext(req.history),
     message |-> req.message]

-----------------------------------------------------------------------------
(* Extraction Adapter *)

\* text.replace(/FENCEjson/g, '').replace(/FENCE/g, ''), FENCE standing for the
\* three backquotes of a markdown code fence: every "FENCEjson" goes, then every
\* FENCE, which leaves the tag of a fence tagged otherwise
StripFences(chunks) ==
    LET noJsonFence == SelectSeq(chunks, LAMBDA c : c # "FENCEjson")
        noFence == [i \in 1..Len(SelectSeq(noJsonFence, LAMBDA c : c # "FENCE")) |->
                      LET c == SelectSeq(noJsonFence, LAMBDA d : d # "FENCE")[i]
                      IN  IF c = "FENCEJSON" THEN "JSON" ELSE c]
    IN  noFence

RECURSIVE TrimLeft(_)
TrimLeft(chunks) ==
    IF chunks # <<>> /\ Head(chunks) = "\n" THEN TrimLeft(Tail(chunks)) ELSE chunks

RECURSIVE TrimRight(_)
TrimRight(chunks) ==
    IF chunks # <<>> /\ chunks[Len(chunks)] = "\n"
    THEN TrimRight(SubSeq(chunks, 1, Len(chunks) - 1))
    ELSE chunks

Trim(chunks) == TrimRight(TrimLeft(chunks))

\* JSON.parse: the text must be one JSON value, "{json}" standing for the
\* serialized object raw.data; Null is a SyntaxError
JsonParse(chunks, data) ==
    IF SelectSeq(chunks, LAMBDA c : c # "\n") = <<"{json}">> THEN Some(data) ELSE Null

ParseExtraction(raw) == JsonParse(Trim(StripFences(raw.chunks)), raw.data)

-----------------------------------------------------------------------------
(* Weather Advisory Module *)

IsBotWeatherMsg(m) ==
    /\ m.sender = "bot"
    /\ \/ TextIncludes(ToLowerCase(m.text), "forecast")
       \/ TextIncludes(ToLowerCase(m.text), "weather")

\* index.js has no check; part_000 looks at the last 'bot' message for
\* 'forecast'; part_002 at every 'bot' message for 'forecast' or 'weather'
WeatherAlreadyDiscussed(b, history) ==
    CASE b = "index" -> FALSE
      [] b = "part_000" ->
            /\ history # Null
            /\ LET bots == SelectSeq(history[1], LAMBDA m : m.sender = "bot")
               IN  /\ bots # <<>>
                   /\ TextIncludes(ToLowerCase(bots[Len(bots)].text), "forecast")
      [] OTHER ->
            /\ history # Null
            /\ \E i \in 1..Len(history[1]) : IsBotWeatherMsg(history[1][i])

DefaultCity == [by |-> "city", q |-> "Trichy", lat |-> 0, lon |-> 0]

\* the URL getWeather requests
ForecastQuery(b, location) ==
    IF b = "part_002" /\ location # Null /\ location[1].lat # 0 /\ location[1].lon # 0
    THEN [by |-> "coords", q |-> "", lat |-> location[1].lat, lon |-> location[1].lon]
    ELSE DefaultCity

Fallback == [condition |-> "unknown", temp |-> 250, found |-> FALSE]

\* list.find(item => item.dt_txt.includes(targetDate)): index of the first
\* match, 0 when there is none
RECURSIVE FindEntry(_, _, _)
FindEntry(list, targetDate, i) ==
    IF i > Len(list) THEN 0
    ELSE IF StrIncludes(list[i].dt_txt, targetDate) THEN i
    ELSE FindEntry(list, targetDate, i + 1)

\* getWeather once the GET has answered (ans.ok) or thrown: the value the
\* handler awaits.  index.js and part_000 take list[0] and fall back to
\* "unknown"; part_002 searches by date and returns null
GetWeather(b, dateStr, ans) ==
    IF b = "part_002"
    THEN IF ~ans.ok THEN Null
         ELSE LET i == FindEntry(ans.list, dateStr, 1)
              IN  IF i = 0 THEN Null
                  ELSE Some([condition |-> ans.list[i].description,
                             temp |-> ans.list[i].temp, found |-> TRUE])
    ELSE IF ans.ok /\ ans.list # <<>>
         THEN Some([condition |-> ans.list[1].description,
                    temp |-> ans.list[1].temp, found |-> FALSE])
         ELSE Some(Fallback)

ForecastSentence(b, w) ==
    IF b = "part_002"
    THEN <<" By the way, the ", "forecast", " for that day is ", w.condition,
           " with ", ToString(MathRound(w.temp)), "C.">>
    ELSE <<" By the way, the ", "forecast", " for that day is ", w.condition, ".">>

RainSentence(b) ==
    IF b = "index"
    THEN <<" Since it looks like rain, I'd recommend indoor seating.">>
    ELSE <<" I recommend indoor seating.">>

SunnySentence == <<" It's going to be sunny, so outdoor seating would be lovely!">>

MentionsWeather(b, reply) ==
    \/ TextIncludes(ToLowerCase(reply), "weather")
    \/ b # "index" /\ TextIncludes(ToLowerCase(reply), "forecast")

\* a handler that appends the forecast sentence without looking at the reply
ApplyWeatherUnguarded(b, ai, weather) ==
    IF weather = Null \/ ~weather[1].found THEN Some(ai)
    ELSE IF ai.reply = Null THEN Null
    ELSE LET w == weather[1]
             r1 == ai.reply[1] \o ForecastSentence(b, w)
         IN  IF StrIncludes(w.condition, "rain") /\ ~TruthyStr(ai.bookingDetails[1].seating)
             THEN Some([ai EXCEPT !.reply = Some(r1 \o RainSentence(b))])
             ELSE Some([ai EXCEPT !.reply = Some(r1)])

\* the handler from the awaited weather to res.json: the aiData sent, or
\* Null when a TypeError is thrown (aiData.reply is not a string)
ApplyWeather(b, ai, weather) ==
    LET bd == ai.bookingDetails[1]
        noSeat == ~TruthyStr(bd.seating)
    IN  IF b = "part_002" /\ (weather = Null \/ ~weather[1].found) THEN Some(ai)
        ELSE IF ai.reply = Null THEN Null
        ELSE LET w == weather[1]
                 reply == ai.reply[1]
                 quiet == ~MentionsWeather(b, reply)
                 r1 == IF quiet THEN reply \o ForecastSentence(b, w) ELSE reply
             IN  IF b = "index"
                 THEN IF w.condition = "rainy" /\ noSeat
                      THEN Some([ai EXCEPT !.reply = Some(r1 \o RainSentence(b)),
                                           !.bookingDetails =
                                               Some([bd EXCEPT !.seating = Some("Indoor")])])
                      ELSE IF w.condition = "sunny" /\ noSeat
                      THEN Some([ai EXCEPT !.reply = Some(r1 \o SunnySentence)])
                      ELSE Some([ai EXCEPT !.reply = Some(r1)])
                 ELSE IF quiet /\ StrIncludes(w.condition, "rain") /\ noSeat
                      THEN Some([ai EXCEPT !.reply = Some(r1 \o RainSentence(b))])
                      ELSE Some([ai EXCEPT !.reply = Some(r1)])

-----------------------------------------------------------------------------
(* The /api/chat handler *)

Ok(ai) == [code |-> 200, data |-> ai]
Fail500 == [code |-> 500, data |-> NoAi]

FreeTurn ==
    [pc |-> "free", req |-> NoReq, prompt |-> SystemPrompt(NoReq), raw |-> Null,
     ai |-> NoAi, calls |-> <<>>, query |-> DefaultCity, answer |-> Null,
     weather |-> Null, resp |-> Fail500]

\* a handler that starts the forecast GET together with the extraction
ChatReceiveParallel(id, req) ==
    /\ turns[id].pc = "free"
    /\ turns' = [turns EXCEPT ![id] =
                    [@ EXCEPT !.pc = "extracting", !.req = req,
                              !.prompt = SystemPrompt(req),
                              !.calls = <<"extraction", "forecast">>]]
    /\ UNCHANGED build

\* the handler is entered: the prompt is built and model.generateContent is
\* called (first await)
ChatReceive(id, req) ==
    /\ turns[id].pc = "free"
    /\ turns' = [turns EXCEPT ![id] =
                    [@ EXCEPT !.pc = "extracting", !.req = req,
                              !.prompt = SystemPrompt(req),
                              !.calls = <<"extraction">>]]
    /\ UNCHANGED build

\* a handler that asks for the forecast whether or not a date was extracted
NeedsForecastAnyDate(b, req, ai) ==
    /\ ai.bookingDetails # Null
    /\ ~WeatherAlreadyDiscussed(b, req.history)

\* does the handler, with the reply parsed, go on to call getWeather?
NeedsForecast(b, req, ai) ==
    /\ ai.bookingDetails # Null
    /\ TruthyStr(ai.bookingDetails[1].date)
    /\ ~WeatherAlreadyDiscussed(b, req.history)

\* generateContent has answered with out (Null: it threw).  The handler
\* runs to its next await (the forecast GET) or to its response.
ExtractionReturn(id, out) ==
    /\ turns[id].pc = "extracting"
    /\ LET t == turns[id]
           parsed == IF out = Null THEN Null ELSE ParseExtraction(out[1])
       IN  turns' = [turns EXCEPT ![id] =
             IF parsed = Null
             THEN [t EXCEPT !.pc = "done", !.raw = out, !.resp = Fail500]
             ELSE IF parsed[1].bookingDetails = Null
             THEN [t EXCEPT !.pc = "done", !.raw = out, !.ai = parsed[1],
                            !.resp = Fail500]
             ELSE IF NeedsForecast(build, t.req, parsed[1])
             THEN [t EXCEPT !.pc = "forecasting", !.raw = out, !.ai = parsed[1],
                            !.calls = Append(@, "forecast"),
                            !.query = ForecastQuery(build, t.req.userLocation)]
             ELSE [t EXCEPT !.pc = "done", !.raw = out, !.ai = parsed[1],
                            !.resp = Ok(parsed[1])]]
    /\ UNCHANGED build

\* a handler that keeps aiData in a module-level variable, which the other
\* turn overwrites when its extraction is parsed
ForecastReturnShared(id, ans) ==
    /\ turns[id].pc = "forecasting"
    /\ LET t == turns[id]
           o == IF id = 1 THEN 2 ELSE 1
           aiData == IF turns[o].pc \in {"forecasting", "done"}
                        /\ turns[o].ai.bookingDetails # Null
                        /\ TruthyStr(turns[o].ai.bookingDetails[1].date)
                     THEN turns[o].ai ELSE t.ai
           w == GetWeather(build, aiData.bookingDetails[1].date[1], ans)
           sent == ApplyWeather(build, aiData, w)
       IN  turns' = [turns EXCEPT ![id] =
             [t EXCEPT !.pc = "done", !.answer = Some(ans), !.weather = w,
                       !.resp = IF sent = Null THEN Fail500 ELSE Ok(sent[1])]]
    /\ UNCHANGED build

\* the forecast GET has answered with ans; the handler responds
ForecastReturn(id, ans) ==
    /\ turns[id].pc = "forecasting"
    /\ LET t == turns[id]
           w == GetWeather(build, t.ai.bookingDetails[1].date[1], ans)
           sent == ApplyWeather(build, t.ai, w)
       IN  turns' = [turns EXCEPT ![id] =
             [t EXCEPT !.pc = "done", !.answer = Some(ans), !.weather = w,
                       !.resp = IF sent = Null THEN Fail500 ELSE Ok(sent[1])]]
    /\ UNCHANGED build

-----------------------------------------------------------------------------
(* Booking Commit and the bookings collection *)

Clients == {"App1", "App2", "Chat"}

Now == "2024-06-01T10:00:00.000Z"       \* new Date(), as JSON carries it

\* handleAutoSave's payload (App2 and Chat): details.x || default
\* a payload that takes the snapshot's fields as they are
AutoSavePayloadNoDefaults(details) ==
    [customerName |-> IF TruthyStr(details.name) THEN details.name[1] ELSE "",
     numberOfGuests |-> IF TruthyNum(details.guests) THEN details.guests[1] ELSE 0,
     bookingDate |-> IF TruthyStr(details.date) THEN details.date[1] ELSE Now,
     bookingTime |-> IF TruthyStr(details.time) THEN details.time[1] ELSE "",
     cuisinePreference |-> details.cuisine,
     specialRequests |->
         IF TruthyStr(details.specialRequests) THEN details.specialRequests[1] ELSE "",
     seatingPreference |-> details.seating,
     status |-> "Confirmed"]

AutoSavePayload(details) ==
    [customerName |-> IF TruthyStr(details.name) THEN details.name[1] ELSE "Guest",
     numberOfGuests |-> IF TruthyNum(details.guests) THEN details.guests[1] ELSE 2,
     bookingDate |-> IF TruthyStr(details.date) THEN details.date[1] ELSE Now,
     bookingTime |-> IF TruthyStr(details.time) THEN details.time[1] ELSE "19:00",
     cuisinePreference |->
         Some(IF TruthyStr(details.cuisine) THEN details.cuisine[1] ELSE "Any"),
     specialRequests |->
         IF TruthyStr(details.specialRequests) THEN details.specialRequests[1] ELSE "None",
     seatingPreference |->
         Some(IF TruthyStr(details.seating) THEN details.seating[1] ELSE "Any"),
     status |-> "Confirmed"]

\* handleConfirmBooking's payload (App1): the cuisine goes into specialRequests
\* and no cuisinePreference or seatingPreference is sent
ConfirmPayload(details) ==
    [customerName |-> IF TruthyStr(details.name) THEN details.name[1] ELSE "Guest",
     numberOfGuests |-> IF TruthyNum(details.guests) THEN details.guests[1] ELSE 2,
     bookingDate |-> IF TruthyStr(details.date) THEN details.date[1] ELSE Now,
     bookingTime |-> IF TruthyStr(details.time) THEN details.time[1] ELSE "19:00",
     cuisinePreference |-> Null,
     specialRequests |-> IF TruthyStr(details.cuisine) THEN details.cuisine[1] ELSE "None",
     seatingPreference |-> Null,
     status |-> "Confirmed"]

SeatingEnum == {"Indoor", "Outdoor", "Any", "indoor", "outdoor", "any"}
StatusEnum == {"Confirmed", "Pending", "Cancelled"}
\* strings the Date cast of bookingDate accepts
CastableDates == {Now, "2024-06-02", "2024-06-03"}

\* bookingSchema's validation of a payload
BookingValid(p) ==
    /\ p.customerName # ""
    /\ p.bookingTime # ""
    /\ p.bookingDate \in CastableDates
    /\ p.seatingPreference = Null \/ p.seatingPreference[1] \in SeatingEnum
    /\ p.status \in StatusEnum

\* a store that keeps bookingDate as the string it was given
CastDateIdentity(d) == d

\* the Date cast of bookingDate, as res.json writes it back: a calendar date
\* becomes the instant of its midnight (UTC), an instant stays what it is
CastDate(d) ==
    CASE d = "2024-06-02" -> "2024-06-02T00:00:00.000Z"
      [] d = "2024-06-03" -> "2024-06-03T00:00:00.000Z"
      [] OTHER -> d

\* new Booking(payload): the casts, and the schema's defaults for what the
\* payload lacks
NewBooking(p, id) ==
    [id |-> id,
     customerName |-> p.customerName,
     numberOfGuests |-> p.numberOfGuests,
     bookingDate |-> CastDate(p.bookingDate),
     bookingTime |-> p.bookingTime,
     cuisinePreference |->
         IF p.cuisinePreference = Null THEN "Any" ELSE p.cuisinePreference[1],
     specialRequests |-> p.specialRequests,
     weatherInfo |-> Null,
     seatingPreference |->
         IF p.seatingPreference = Null THEN "Any" ELSE p.seatingPreference[1],
     status |-> p.status,
     createdAt |-> id]

-----------------------------------------------------------------------------
(* Chat client: App (first and second version, App.jsx) and Chat *)

Greeting == <<"Hello! I am the Vaiu Bistro Assistant.">>
ConnectErrorMsg == <<"Sorry, I had trouble connecting to the server.">>
SaveErrorMsg == <<"There was an error saving the booking.">>
SuccessMsg(c) ==
    CASE c = "App1" -> <<"Your booking has been officially saved to the database!">>
      [] c = "App2" -> <<"I have successfully saved your booking! Redirecting to home...">>
      [] OTHER -> <<"Booking confirmed! Redirecting...">>

\* {} : every field undefined
EmptyDetails == [s \in Slots |-> Null]

\* speak(text): nothing without speechSynthesis; else cancel() and queue
Speak(cur) == IF hasTTS THEN "queued" ELSE cur

\* the mic button is rendered and enabled
MicEnabled == view = "chat" /\ status \notin {"processing", "speaking"}

\* startNewBooking (App2); for Chat, the route /chat mounts a fresh component
StartNewBooking ==
    /\ client \in {"App2", "Chat"}
    /\ view = "home"
    /\ session < MaxSessions
    /\ session' = session + 1
    /\ messages' = <<Msg("bot", Greeting)>>
    /\ bookingDetails' = EmptyDetails
    /\ snapTurn' = 0
    /\ status' = "idle"
    /\ view' = "chat"
    /\ isListening' = IF client = "Chat" THEN FALSE ELSE isListening
    /\ userLocation' = IF client = "Chat" THEN Null ELSE userLocation
    /\ UNCHANGED <<srvVars, client, hasTTS, rec, awaiting, tts, saves, bookings, timers,
                   booking>>

\* navigator.geolocation.getCurrentPosition's success callback
Geolocate(loc) ==
    /\ client \in {"App2", "Chat"}
    /\ client = "Chat" => view = "chat"
    /\ userLocation = Null
    /\ userLocation' = Some(loc)
    /\ UNCHANGED <<srvVars, client, hasTTS, session, view, messages, bookingDetails,
                   snapTurn, status, isListening, rec, awaiting, tts, saves, bookings,
                   timers, booking>>

\* startListening: a recognition whose handlers close over this render's
\* messages, status and userLocation.  One recognition runs at a time.
TapMic ==
    /\ MicEnabled
    /\ rec = Null
    /\ rec' = Some([msgs |-> messages, st |-> status, loc |-> userLocation,
                    phase |-> "starting"])
    /\ UNCHANGED <<srvVars, client, hasTTS, session, view, messages, bookingDetails,
                   snapTurn, status, isListening, userLocation, awaiting, tts, saves,
                   bookings, timers, booking>>

\* recognition.onstart
RecOnStart ==
    /\ rec # Null /\ rec[1].phase = "starting"
    /\ rec' = Some([rec[1] EXCEPT !.phase = "listening"])
    /\ isListening' = TRUE
    /\ status' = "listening"
    /\ UNCHANGED <<srvVars, client, hasTTS, session, view, messages, bookingDetails,
                   snapTurn, userLocation, awaiting, tts, saves, bookings, timers,
                   booking>>

\* recognition.onresult -> handleSendMessage(transcript), up to its await
RecOnResult(transcript) ==
    /\ rec # Null /\ rec[1].phase = "listening"
    /\ rec' = Some([rec[1] EXCEPT !.phase = "resulted"])
    /\ IF IsBlank(transcript)
       THEN UNCHANGED <<srvVars, messages, status, awaiting>>
       ELSE LET newMessages == Append(rec[1].msgs, Msg("user", transcript))
                req == [message |-> Some(transcript),
                        history |-> Some(newMessages),
                        userLocation |-> IF client = "App1" THEN Null ELSE rec[1].loc]
            IN  /\ nextReq <= MaxReq
                /\ messages' = newMessages
                /\ status' = "processing"
                /\ ChatReceive(nextReq, req)
                /\ nextReq' = nextReq + 1
                /\ awaiting' = awaiting \cup {nextReq}
    /\ UNCHANGED <<client, hasTTS, session, view, bookingDetails, snapTurn, isListening,
                   userLocation, tts, saves, bookings, timers, booking>>

\* recognition.onend
RecOnEnd ==
    /\ rec # Null /\ rec[1].phase \in {"listening", "resulted"}
    /\ rec' = Null
    /\ isListening' = FALSE
    /\ status' = IF rec[1].st = "listening" THEN "idle" ELSE status
    /\ UNCHANGED <<srvVars, client, hasTTS, session, view, messages, bookingDetails,
                   snapTurn, userLocation, awaiting, tts, saves, bookings, timers,
                   booking>>

AutoSave(id, details) ==
    [payload |-> AutoSavePayload(details), kind |-> "auto", turn |-> id, st |-> "pending"]

\* handleSendMessage from the chat response on: the try block's remainder,
\* with handleAutoSave up to its POST, or the catch block
ChatResponse(id) ==
    /\ id \in awaiting
    /\ turns[id].pc = "done"
    /\ awaiting' = awaiting \ {id}
    /\ LET r == turns[id].resp
           ai == r.data
       IN  IF r.code = 200
           THEN /\ bookingDetails' =
                     IF ai.bookingDetails # Null THEN ai.bookingDetails[1] ELSE EmptyDetails
                /\ snapTurn' = id
                /\ messages' = Append(messages,
                                      Msg("bot", IF ai.reply # Null THEN ai.reply[1] ELSE <<>>))
                /\ tts' = Speak(tts)
                /\ saves' = IF client # "App1" /\ ai.intent = Some("confirmed")
                            THEN Append(saves, AutoSave(id, ai.bookingDetails[1]))
                            ELSE saves
                /\ UNCHANGED status
           ELSE /\ messages' = IF client = "App1"
                               THEN Append(messages, Msg("bot", ConnectErrorMsg))
                               ELSE messages
                /\ tts' = IF client = "App1" THEN Speak(tts) ELSE tts
                /\ status' = IF client = "Chat" THEN "error" ELSE "idle"
                /\ UNCHANGED <<bookingDetails, snapTurn, saves>>
    /\ UNCHANGED <<srvVars, client, hasTTS, session, view, isListening, userLocation,
                   rec, bookings, timers, booking>>

\* the Confirm & Save button of App1, shown once date and guests are there:
\* handleConfirmBooking up to its POST
ConfirmBooking ==
    /\ client = "App1"
    /\ TruthyStr(bookingDetails.date) /\ TruthyNum(bookingDetails.guests)
    /\ Cardinality({k \in 1..Len(saves) : saves[k].kind = "button"}) < MaxSaves
    /\ saves' = Append(saves, [payload |-> ConfirmPayload(bookingDetails),
                               kind |-> "button", turn |-> snapTurn, st |-> "pending"])
    /\ UNCHANGED <<srvVars, client, hasTTS, session, view, messages, bookingDetails,
                   snapTurn, status, isListening, userLocation, rec, awaiting, tts,
                   bookings, timers, booking>>

\* a create endpoint that stores no second record of the same booking
SaveReturnDedup(k, dbUp) ==
    /\ k \in 1..Len(saves)
    /\ saves[k].st = "pending"
    /\ LET ok == dbUp /\ BookingValid(saves[k].payload)
           auto == saves[k].kind = "auto"
           new == NewBooking(saves[k].payload, Len(bookings) + 1)
           dup == \E i \in 1..Len(bookings) :
                     [bookings[i] EXCEPT !.id = 0, !.createdAt = 0]
                         = [new EXCEPT !.id = 0, !.createdAt = 0]
       IN  /\ saves' = [saves EXCEPT ![k].st = IF ok THEN "ok" ELSE "failed"]
           /\ bookings' = IF ok /\ ~dup THEN Append(bookings, new) ELSE bookings
           /\ messages' = IF ok THEN Append(messages, Msg("bot", SuccessMsg(client)))
                          ELSE IF auto /\ client = "App2"
                          THEN Append(messages, Msg("bot", SaveErrorMsg))
                          ELSE messages
           /\ tts' = IF ok THEN Speak(tts) ELSE tts
           /\ timers' = IF ok /\ auto THEN timers + 1 ELSE timers
    /\ UNCHANGED <<srvVars, client, hasTTS, session, view, bookingDetails, snapTurn,
                   status, isListening, userLocation, rec, awaiting, booking>>

\* a handler whose catch block also speaks the error message
SaveReturnSpoken(k, dbUp) ==
    /\ k \in 1..Len(saves)
    /\ saves[k].st = "pending"
    /\ LET ok == dbUp /\ BookingValid(saves[k].payload)
           auto == saves[k].kind = "auto"
       IN  /\ saves' = [saves EXCEPT ![k].st = IF ok THEN "ok" ELSE "failed"]
           /\ bookings' = IF ok
                          THEN Append(bookings, NewBooking(saves[k].payload, Len(bookings) + 1))
                          ELSE bookings
           /\ messages' = IF ok THEN Append(messages, Msg("bot", SuccessMsg(client)))
                          ELSE IF auto /\ client = "App2"
                          THEN Append(messages, Msg("bot", SaveErrorMsg))
                          ELSE messages
           /\ tts' = Speak(tts)
           /\ timers' = IF ok /\ auto THEN timers + 1 ELSE timers
    /\ UNCHANGED <<srvVars, client, hasTTS, session, view, bookingDetails, snapTurn,
                   status, isListening, userLocation, rec, awaiting, booking>>

\* POST /api/bookings is handled (dbUp: the store accepts the write) and the
\* client's handler resumes after its await
SaveReturn(k, dbUp) ==
    /\ k \in 1..Len(saves)
    /\ saves[k].st = "pending"
    /\ LET ok == dbUp /\ BookingValid(saves[k].payload)
           auto == saves[k].kind = "auto"
       IN  /\ saves' = [saves EXCEPT ![k].st = IF ok THEN "ok" ELSE "failed"]
           /\ bookings' = IF ok
                          THEN Append(bookings, NewBooking(saves[k].payload, Len(bookings) + 1))
                          ELSE bookings
           /\ messages' = IF ok THEN Append(messages, Msg("bot", SuccessMsg(client)))
                          ELSE IF auto /\ client = "App2"
                          THEN Append(messages, Msg("bot", SaveErrorMsg))
                          ELSE messages
           /\ tts' = IF ok THEN Speak(tts) ELSE tts
           /\ timers' = IF ok /\ auto THEN timers + 1 ELSE timers
    /\ UNCHANGED <<srvVars, client, hasTTS, session, view, bookingDetails, snapTurn,
                   status, isListening, userLocation, rec, awaiting, booking>>

\* the Exit button of App's chat view: setView('home')
ExitChat ==
    /\ client = "App2"
    /\ view = "chat"
    /\ view' = "home"
    /\ UNCHANGED <<srvVars, client, hasTTS, session, messages, bookingDetails, snapTurn,
                   status, isListening, userLocation, rec, awaiting, tts, saves, bookings,
                   timers, booking>>

\* the 4 s timeout of handleAutoSave fires: setView('home') / navigate('/')
RedirectTimer ==
    /\ timers > 0
    /\ timers' = timers - 1
    /\ view' = "home"
    /\ UNCHANGED <<srvVars, client, hasTTS, session, messages, bookingDetails, snapTurn,
                   status, isListening, userLocation, rec, awaiting, tts, saves, bookings,
                   booking>>

\* Booking.findById(id): the record, or Null (404)
FindById(id) ==
    LET hits == SelectSeq(bookings, LAMBDA b : b.id = id)
    IN  IF hits = <<>> THEN Null ELSE Some(hits[1])

\* the BookingDetails page: GET /api/bookings/:id, then setBooking(res.data);
\* a 404 is caught and leaves the page as it is
FetchBooking(id) ==
    /\ FindById(id) # Null
    /\ booking # FindById(id)
    /\ booking' = FindById(id)
    /\ UNCHANGED <<srvVars, client, hasTTS, session, view, messages, bookingDetails,
                   snapTurn, status, isListening, userLocation, rec, awaiting, tts,
                   saves, bookings, timers>>

\* utterance.onstart
SpeakStart ==
    /\ tts = "queued"
    /\ tts' = "speaking"
    /\ status' = "speaking"
    /\ UNCHANGED <<srvVars, client, hasTTS, session, view, messages, bookingDetails,
                   snapTurn, isListening, userLocation, rec, awaiting, saves, bookings,
                   timers, booking>>

\* utterance.onend
SpeakEnd ==
    /\ tts = "speaking"
    /\ tts' = "off"
    /\ status' = "idle"
    /\ UNCHANGED <<srvVars, client, hasTTS, session, view, messages, bookingDetails,
                   snapTurn, isListening, userLocation, rec, awaiting, saves, bookings,
                   timers, booking>>

-----------------------------------------------------------------------------
(* Inputs *)

Snap(n, d, t, g, se, c, sp) ==
    [name |-> n, date |-> d, time |-> t, guests |-> g, seating |-> se,
     cuisine |-> c, specialRequests |-> sp]

FullSnap == Snap(Some("Ann"), Some("2024-06-02"), Some("19:30"), Some(4),
                 Some("Outdoor"), Some("Italian"), Some("Birthday"))

Data(reply, bd, intent) == [reply |-> reply, bookingDetails |-> bd, intent |-> intent]

Bare(d) == Some([chunks |-> <<"{json}">>, data |-> d])

RainEntry == [dt_txt |-> "2024-06-02 12:00:00", description |-> "light rain", temp |-> 245]
ClearEntry == [dt_txt |-> "2024-06-02 15:00:00", description |-> "clear sky", temp |-> 301]
OtherDayEntry == [dt_txt |-> "2024-06-03 12:00:00", description |-> "rainy", temp |-> -15]
SunnyEntry == [dt_txt |-> "2024-06-03 12:00:00", description |-> "sunny", temp |-> 329]

GetFailed == [ok |-> FALSE, list |-> <<>>]
GetOk(list) == [ok |-> TRUE, list |-> list]

SeqsUpTo(S, n) == UNION {[1..k -> S] : k \in 0..n}

\* --- one chat session
Transcripts == {<<"Book">>, <<" ">>}

SessionLocations == {[lat |-> 10, lon |-> 78]}

SessionData ==
    { Data(Some(<<"Okay">>),
           Some(Snap(Null, Some("2024-06-02"), Null, Some(4), Null, Null, Null)),
           Some("booking_request")),
      Data(Some(<<"Okay">>), Some(FullSnap), Some("confirmed")) }

SessionOuts == {Null} \cup {Bare(d) : d \in SessionData}

SessionForecasts == {GetFailed, GetOk(<<RainEntry>>)}

\* --- one turn, the weather advisory
HistoryMsgs ==
    { Msg("user", <<"Hello">>), Msg("user", <<"The", "Weather">>),
      Msg("bot", <<"Hello">>), Msg("bot", <<"The", "Weather">>),
      Msg("bot", <<"FORECAST">>), Msg("agent", <<"The", "Weather">>) }

WeatherRequests ==
    { [message |-> Some(<<"Book">>), history |-> h, userLocation |-> Null] :
        h \in {Null} \cup {Some(x) : x \in SeqsUpTo(HistoryMsgs, MaxHist)} }

WeatherData ==
    { Data(r, Some(Snap(Some("Ann"), d, Some("19:30"), Some(4), se, Null, Null)),
           Some("booking_request")) :
        r \in {Null, Some(<<"Okay">>), Some(<<"The", "Weather">>), Some(<<"FORECAST">>)},
        d \in {Null, Some(""), Some("2024-06-02")},
        se \in {Null, Some("Outdoor")} }

WeatherOuts == {Bare(d) : d \in WeatherData}

WeatherForecasts ==
    {GetFailed} \cup
    {GetOk(l) : l \in SeqsUpTo({RainEntry, ClearEntry, OtherDayEntry, SunnyEntry}, MaxList)}

\* --- one turn, the request and extraction contracts
BaseHistory == Some(<<Msg("bot", Greeting), Msg("user", <<"Book">>)>>)

ContractRequests ==
    { [message |-> m, history |-> BaseHistory, userLocation |-> l] :
        m \in {Null, Some(<<"Book">>), Some(<<"yes">>)},
        l \in {Null, Some([lat |-> 10, lon |-> 78]), Some([lat |-> 0, lon |-> 78])} }

Wrappings ==
    { <<"{json}">>,
      <<"FENCEjson", "\n", "{json}", "\n", "FENCE">>,
      <<"FENCE", "\n", "{json}", "\n", "FENCE">>,
      <<"FENCEJSON", "\n", "{json}", "\n", "FENCE">>,
      <<"Here is the JSON:", "\n", "{json}">>,
      <<"\n", "{json}", "\n">>,
      <<"{truncated">> }

ContractSnaps ==
    { Snap(n, d, t, g, se, Null, Null) :
        n \in {Null, Some("Ann")}, d \in {Null, Some("2024-06-02")},
        t \in {Null, Some("19:30")}, g \in {Null, Some(4)},
        se \in {Null, Some("Outdoor")} }

ContractData ==
    { Data(r, bd, i) :
        r \in {Null, Some(<<"Okay">>)},
        bd \in {Null} \cup {Some(x) : x \in ContractSnaps},
        i \in {Null, Some("booking_request"), Some("confirmation_request"),
               Some("confirmed"), Some("cancel")} }

\* every shape of reply unwrapped, and every wrapping of two replies
WrappedData ==
    { Data(Some(<<"Okay">>), Some(FullSnap), Some("confirmation_request")),
      Data(Some(<<"Okay">>), Some(Snap(Null, Null, Null, Null, Null, Null, Null)),
           Some("booking_request")) }

ContractOuts ==
    {Null} \cup {Bare(d) : d \in ContractData}
           \cup {Some([chunks |-> w, data |-> d]) : w \in Wrappings, d \in WrappedData}

ContractForecasts == {GetFailed, GetOk(<<RainEntry>>), GetOk(<<OtherDayEntry>>)}

-----------------------------------------------------------------------------
(* Specifications *)

\* client and server revisions that belong together
Deployments == {<<"App1", "index">>, <<"App2", "part_002">>, <<"Chat", "part_002">>}

InitServer ==
    /\ turns = [id \in ReqIds |-> FreeTurn]
    /\ nextReq = 1

InitClient ==
    /\ session = IF client = "App1" THEN 1 ELSE 0
    /\ view = IF client = "App1" THEN "chat" ELSE "home"
    /\ messages = IF client = "App1" THEN <<Msg("bot", Greeting)>> ELSE <<>>
    /\ bookingDetails = EmptyDetails
    /\ snapTurn = 0
    /\ status = "idle"
    /\ isListening = FALSE
    /\ userLocation = Null
    /\ rec = Null
    /\ awaiting = {}
    /\ tts = "off"
    /\ saves = <<>>
    /\ bookings = <<>>
    /\ timers = 0
    /\ booking = Null

\* a browser, the server and the collection
Init ==
    /\ \E d \in Deployments : client = d[1] /\ build = d[2]
    /\ hasTTS \in BOOLEAN
    /\ InitServer
    /\ InitClient

Next ==
    \/ session = 0 /\ StartNewBooking
    \/ TapMic
    \/ RecOnStart
    \/ \E tr \in Transcripts : RecOnResult(tr)
    \/ RecOnEnd
    \/ \E id \in ReqIds, out \in SessionOuts :
          ExtractionReturn(id, out) /\ UNCHANGED <<nextReq, cliVars>>
    \/ \E id \in ReqIds, ans \in SessionForecasts :
          ForecastReturn(id, ans) /\ UNCHANGED <<nextReq, cliVars>>
    \/ \E id \in ReqIds : ChatResponse(id)
    \/ ConfirmBooking
    \/ \E k \in 1..MaxReq + MaxSaves, dbUp \in BOOLEAN : SaveReturn(k, dbUp)
    \/ RedirectTimer
    \/ SpeakStart
    \/ SpeakEnd

Spec == Init /\ [][Next]_vars

\* one request to /api/chat from any caller
InitTurn ==
    /\ build \in Builds
    /\ client = "App2"
    /\ hasTTS = TRUE
    /\ InitServer
    /\ InitClient

HttpChat(req) ==
    /\ nextReq = 1
    /\ ChatReceive(1, req)
    /\ nextReq' = 2
    /\ UNCHANGED cliVars

NextWeather ==
    \/ \E req \in WeatherRequests : HttpChat(req)
    \/ \E out \in WeatherOuts : ExtractionReturn(1, out) /\ UNCHANGED <<nextReq, cliVars>>
    \/ \E ans \in WeatherForecasts : ForecastReturn(1, ans) /\ UNCHANGED <<nextReq, cliVars>>

SpecWeather == InitTurn /\ [][NextWeather]_vars

\* the same turn when the server's own steps are taken but the external
\* capabilities are free never to answer: neither await has a timeout
SpecTimeout ==
    InitTurn /\ [][NextWeather]_vars /\ WF_vars(\E req \in WeatherRequests : HttpChat(req))

\* --- two callers, each with one request to /api/chat, in any interleaving
TwoRequests ==
    { [message |-> Some(<<"Book">>), history |-> h, userLocation |-> l] :
        h \in {Null, Some(<<Msg("bot", <<"The", "Weather">>)>>)},
        l \in {Null, Some([lat |-> 10, lon |-> 78])} }

TwoData ==
    { Data(Some(<<"Okay">>), Some(Snap(Some("Ann"), d, Some("19:30"), Some(4), se, Null, Null)),
           Some("booking_request")) :
        d \in {Null, Some("2024-06-02"), Some("2024-06-03")},
        se \in {Null, Some("Outdoor")} }

TwoOuts == {Null} \cup {Bare(d) : d \in TwoData}

TwoForecasts == {GetFailed, GetOk(<<RainEntry, SunnyEntry>>)}

\* a request of another caller: the handler is entered with a fresh closure
HttpChatFrom(id, req) ==
    /\ ChatReceive(id, req)
    /\ UNCHANGED <<nextReq, cliVars>>

NextTwo ==
    \/ \E id \in 1..2, req \in TwoRequests : HttpChatFrom(id, req)
    \/ \E id \in 1..2, out \in TwoOuts :
          ExtractionReturn(id, out) /\ UNCHANGED <<nextReq, cliVars>>
    \/ \E id \in 1..2, ans \in TwoForecasts :
          ForecastReturn(id, ans) /\ UNCHANGED <<nextReq, cliVars>>

SpecTwo == InitTurn /\ [][NextTwo]_vars

NextContract ==
    \/ \E req \in ContractRequests : HttpChat(req)
    \/ \E out \in ContractOuts : ExtractionReturn(1, out) /\ UNCHANGED <<nextReq, cliVars>>
    \/ \E ans \in ContractForecasts : ForecastReturn(1, ans) /\ UNCHANGED <<nextReq, cliVars>>

SpecContract == InitTurn /\ [][NextContract]_vars

\* one confirmed turn of App2 or Chat, with any snapshot, and its commit
CommitSnaps ==
    { Snap(n, d, t, g, se, c, sp) :
        n \in {Null, Some("Ann")}, d \in {Null, Some("2024-06-02")},
        t \in {Null, Some("19:30")}, g \in {Null, Some(0), Some(4)},
        se \in {Null, Some("Outdoor")}, c \in {Null, Some("Italian")},
        sp \in {Null, Some("Birthday")} }

CommitOuts == {Bare(Data(Some(<<"Okay">>), Some(x), Some("confirmed"))) : x \in CommitSnaps}

InitCommit ==
    /\ client \in {"App2", "Chat"}
    /\ build = "part_002"
    /\ hasTTS \in BOOLEAN
    /\ InitServer
    /\ InitClient

NextCommit ==
    \/ session = 0 /\ StartNewBooking
    \/ TapMic
    \/ RecOnStart
    \/ nextReq = 1 /\ RecOnResult(<<"yes">>)
    \/ RecOnEnd
    \/ \E out \in CommitOuts : ExtractionReturn(1, out) /\ UNCHANGED <<nextReq, cliVars>>
    \/ \E ans \in SessionForecasts : ForecastReturn(1, ans) /\ UNCHANGED <<nextReq, cliVars>>
    \/ ChatResponse(1)
    \/ \E dbUp \in BOOLEAN : SaveReturn(1, dbUp)
    \/ RedirectTimer
    \/ SpeakStart
    \/ SpeakEnd
    \/ \E id \in 1..MaxSaves : FetchBooking(id)

SpecCommit == InitCommit /\ [][NextCommit]_vars

\* the chat client when everything but the user takes its steps: every
\* recognition starts and ends, every extraction answers, every response is
\* handled, every utterance queued for speech starts and ends
LiveOuts ==
    {Null, Bare(Data(Some(<<"Okay">>), Some(EmptyDetails), Some("booking_request")))}

NextLive ==
    \/ session = 0 /\ StartNewBooking
    \/ TapMic
    \/ RecOnStart
    \/ \E tr \in Transcripts : RecOnResult(tr)
    \/ RecOnEnd
    \/ \E id \in ReqIds, out \in LiveOuts :
          ExtractionReturn(id, out) /\ UNCHANGED <<nextReq, cliVars>>
    \/ \E id \in ReqIds : ChatResponse(id)
    \/ SpeakStart
    \/ SpeakEnd

SpecLive ==
    /\ InitCommit
    /\ [][NextLive]_vars
    /\ WF_vars(RecOnStart)
    /\ WF_vars(RecOnEnd)
    /\ WF_vars(\E id \in ReqIds, out \in LiveOuts :
                  ExtractionReturn(id, out) /\ UNCHANGED <<nextReq, cliVars>>)
    /\ WF_vars(\E id \in ReqIds : ChatResponse(id))
    /\ WF_vars(SpeakStart)
    /\ WF_vars(SpeakEnd)

\* App with two chat sessions: the user talks in the first one, leaves it
\* with Exit or is redirected, starts a second one and then only watches
SessionsOuts ==
    {Null, Bare(Data(Some(<<"Okay">>),
                     Some(Snap(Some("Ann"), Null, Some("19:30"), Some(4), Null, Null, Null)),
                     Some("confirmed")))}

InitSessions ==
    /\ client = "App2"
    /\ build = "part_002"
    /\ hasTTS \in BOOLEAN
    /\ InitServer
    /\ InitClient

NextSessions ==
    \/ StartNewBooking
    \/ session = 1 /\ ExitChat
    \/ session = 1 /\ TapMic
    \/ RecOnStart
    \/ session = 1 /\ RecOnResult(<<"yes">>)
    \/ RecOnEnd
    \/ \E id \in ReqIds, out \in SessionsOuts :
          ExtractionReturn(id, out) /\ UNCHANGED <<nextReq, cliVars>>
    \/ \E id \in ReqIds : ChatResponse(id)
    \/ \E k \in 1..MaxSaves, dbUp \in BOOLEAN : SaveReturn(k, dbUp)
    \/ RedirectTimer
    \/ SpeakStart
    \/ SpeakEnd

SpecSessions == InitSessions /\ [][NextSessions]_vars

-----------------------------------------------------------------------------
(* Properties of one turn *)

Queries(t) == Cardinality({i \in 1..Len(t.calls) : t.calls[i] = "forecast"})
Extractions(t) == Cardinality({i \in 1..Len(t.calls) : t.calls[i] = "extraction"})

HasDate(t) == t.ai.bookingDetails # Null /\ t.ai.bookingDetails[1].date # Null

\* the extraction gave a string reply and, if a date, not the empty string
WellShaped(t) ==
    /\ t.ai.reply # Null
    /\ t.ai.bookingDetails # Null /\ t.ai.bookingDetails[1].date # Some("")

SaysWeather(text) ==
    \/ TextIncludes(ToLowerCase(text), "forecast")
    \/ TextIncludes(ToLowerCase(text), "weather")

\* some entry of the history, sent by one of senders, mentions the weather
PriorWeather(history, senders) ==
    /\ history # Null
    /\ \E i \in 1..Len(history[1]) :
          history[1][i].sender \in senders /\ SaysWeather(history[1][i].text)

AgentSenders == {"agent", "bot"}

\* the response carries the extracted reply, with Added(t) after it
KeepsReply(t) ==
    /\ t.resp.code = 200
    /\ t.resp.data.reply # Null /\ t.ai.reply # Null
    /\ Len(t.resp.data.reply[1]) >= Len(t.ai.reply[1])
    /\ SubSeq(t.resp.data.reply[1], 1, Len(t.ai.reply[1])) = t.ai.reply[1]

Added(t) == SubSeq(t.resp.data.reply[1], Len(t.ai.reply[1]) + 1, Len(t.resp.data.reply[1]))

Count(seq, S) == Cardinality({i \in 1..Len(seq) : seq[i] \in S})

ForecastSentences(t) == Count(Added(t), {" By the way, the "})

Recommendations(t) ==
    Count(Added(t), {" I recommend indoor seating.",
                     " Since it looks like rain, I'd recommend indoor seating."})

\* the forecast GET answered with an entry of the booking's date
Matched(t) ==
    /\ t.answer # Null /\ t.answer[1].ok
    /\ \E i \in 1..Len(t.answer[1].list) :
          StrIncludes(t.answer[1].list[i].dt_txt, t.ai.bookingDetails[1].date[1])

\* the first entry of the booking's date in the answer
MatchedEntry(t) ==
    LET list == t.answer[1].list
        hit(i) == StrIncludes(list[i].dt_txt, t.ai.bookingDetails[1].date[1])
    IN  list[CHOOSE i \in 1..Len(list) : hit(i) /\ \A j \in 1..(i - 1) : ~hit(j)]

\* C2: for any request history in which some entry with sender "agent" has a
\* text containing "weather" or "forecast" (any case, any position) and any
\* extracted non-null date, no forecast query is issued and no forecast
\* sentence is appended to the reply
C2_AgentWeatherSkipsForecast ==
    \A id \in ReqIds :
        LET t == turns[id]
        IN  ( /\ build = "part_002"
              /\ t.pc \in {"forecasting", "done"}
              /\ HasDate(t)
              /\ PriorWeather(t.req.history, {"agent"}) )
            => /\ Queries(t) = 0
               /\ t.pc = "done" => t.resp.data.reply = t.ai.reply

\* C7: whenever the forecast is found, its condition contains "rain" and the
\* extracted seating is null, the returned snapshot has seating "Indoor" and
\* exactly one recommendation sentence is appended to the reply; a non-rain
\* condition leaves the returned seating equal to the extracted seating
C7_RainSetsIndoor ==
    \A id \in ReqIds :
        LET t == turns[id]
        IN  ( /\ build = "part_002"
              /\ t.pc = "done" /\ t.resp.code = 200
              /\ WellShaped(t) /\ ~SaysWeather(t.ai.reply[1])
              /\ t.weather # Null /\ t.weather[1].found )
            => IF StrIncludes(t.weather[1].condition, "rain")
               THEN t.ai.bookingDetails[1].seating = Null
                    => /\ t.resp.data.bookingDetails[1].seating = Some("Indoor")
                       /\ KeepsReply(t) /\ Recommendations(t) = 1
               ELSE t.resp.data.bookingDetails[1].seating = t.ai.bookingDetails[1].seating

\* C8 as stated: for any request history with no prior agent message
\* containing "forecast" or "weather" and a turn whose extraction yields a
\* non-null date, exactly one forecast query is issued during the turn and
\* the returned reply is the extracted reply plus exactly one forecast sentence
C8_AlwaysOneSentence ==
    \A id \in ReqIds :
        LET t == turns[id]
        IN  ( /\ build = "part_002"
              /\ t.pc = "done"
              /\ HasDate(t) /\ WellShaped(t)
              /\ ~PriorWeather(t.req.history, AgentSenders) )
            => /\ Queries(t) = 1
               /\ KeepsReply(t) /\ ForecastSentences(t) = 1

\* C8 amended: for any request history with no prior agent message
\* containing "forecast" or "weather" and a turn whose extraction yields a
\* string reply and a non-empty date, exactly one forecast query is issued
\* during the turn; the returned reply is the extracted reply plus exactly
\* one forecast sentence (and one indoor recommendation when the condition
\* contains "rain" and no seating was extracted) when an entry of that date
\* was found and the extracted reply mentions neither "weather" nor
\* "forecast", and is the extracted reply unchanged otherwise
C8_OneQuerySentenceWhenFound ==
    \A id \in ReqIds :
        LET t == turns[id]
        IN  ( /\ build = "part_002"
              /\ t.pc = "done"
              /\ HasDate(t) /\ WellShaped(t)
              /\ ~PriorWeather(t.req.history, AgentSenders) )
            => /\ Queries(t) = 1
               /\ KeepsReply(t)
               /\ IF Matched(t) /\ ~SaysWeather(t.ai.reply[1])
                  THEN /\ ForecastSentences(t) = 1
                       /\ Recommendations(t) =
                            IF /\ StrIncludes(MatchedEntry(t).description, "rain")
                               /\ t.ai.bookingDetails[1].seating = Null
                            THEN 1 ELSE 0
                  ELSE t.resp.data.reply = t.ai.reply

\* a turn with a fresh history whose reply gained the forecast sentence, and
\* one whose forecast had no entry of the date
C8_Witness ==
    \E id \in ReqIds :
        LET t == turns[id]
        IN  /\ build = "part_002" /\ t.pc = "done"
            /\ HasDate(t) /\ t.ai.reply # Null
            /\ t.req.history # Null /\ Len(t.req.history[1]) = MaxHist
            /\ ~PriorWeather(t.req.history, AgentSenders)
            /\ Matched(t) /\ ~SaysWeather(t.ai.reply[1])
            /\ KeepsReply(t) /\ ForecastSentences(t) = 1 /\ Recommendations(t) = 1

\* C9: if the forecast call errors or no entry matches the date, the turn
\* still returns a successful response whose reply and bookingDetails are
\* exactly those extracted
C9_ForecastFailureIsSilent ==
    \A id \in ReqIds :
        LET t == turns[id]
        IN  ( /\ build \in {"index", "part_002"}
              /\ t.pc = "done" /\ WellShaped(t)
              /\ t.answer # Null /\ ~Matched(t) )
            => /\ t.resp.code = 200
               /\ t.resp.data.reply = t.ai.reply
               /\ t.resp.data.bookingDetails = t.ai.bookingDetails

-----------------------------------------------------------------------------
(* Properties of the extraction contract *)

Affirmations == {"yes", "confirm", "go ahead"}

Affirms(message) ==
    /\ message # Null
    /\ \E a \in Affirmations : TextIncludes(ToLowerCase(message[1]), a)

Required == {"name", "date", "time", "guests", "seating"}

Complete(bd) == bd # Null /\ \A s \in Required : bd[1][s] # Null

Intents == {Some("booking_request"), Some("confirmation_request"), Some("confirmed")}

\* C3: for every turn response, intent equals "confirmed" if and only if
\* name, date, time, guests and seating are all non-null in the returned
\* snapshot and the turn's utterance contains an affirmation token; otherwise
\* intent is "booking_request" or "confirmation_request"
C3_ConfirmedIffCompleteAndAffirmed ==
    \A id \in ReqIds :
        LET t == turns[id]
        IN  ( /\ build = "part_002"
              /\ t.pc = "done" /\ t.resp.code = 200
              /\ t.req.message # Null /\ WellShaped(t)
              /\ t.resp.data.intent \in Intents )
            => ( t.resp.data.intent = Some("confirmed")
                 <=> Complete(t.resp.data.bookingDetails) /\ Affirms(t.req.message) )

\* C10: if the extraction output cannot be parsed, or parses but violates the
\* required shape, the turn fails with a generic failure response, returns no
\* partial result, and the extraction is not retried within the turn
C10_BadExtractionFails ==
    \A id \in ReqIds :
        LET t == turns[id]
        IN  ( /\ build = "part_002"
              /\ t.pc = "done" /\ t.raw # Null
              /\ t.req.message # Null
              /\ \/ ParseExtraction(t.raw[1]) = Null
                 \/ t.ai.reply = Null
                 \/ t.ai.bookingDetails = Null )
            => /\ t.resp = Fail500
               /\ Extractions(t) = 1

-----------------------------------------------------------------------------
(* Properties of a session *)

\* the turns whose reply the server extended with a forecast sentence
Advised == {id \in ReqIds : turns[id].pc = "done" /\ KeepsReply(turns[id])
                            /\ ForecastSentences(turns[id]) >= 1}

\* C1: across all turns of one session, at most one returned reply contains
\* a server-appended forecast sentence
C1_OneAdvisoryPerSession ==
    (client \in {"App2", "Chat"} /\ session <= 1) => Cardinality(Advised) <= 1

\* the chat response of turn id is being handled by the client
Handles(id) == id \in awaiting /\ id \notin awaiting' /\ turns[id].resp.code = 200

\* C4: a slot that is non-null in the client-held snapshot after turn k is
\* still non-null with the same value after turn k+1 unless the extraction of
\* turn k+1 returned a new non-null value for that slot
C4_SlotsSurviveNullExtraction ==
    [][ \A id \in ReqIds :
          (client = "App2" /\ Handles(id)) =>
             \A s \in Slots :
                (bookingDetails[s] # Null /\ turns[id].ai.bookingDetails[1][s] = Null)
                => bookingDetails'[s] = bookingDetails[s] ]_vars

\* C5: a create-booking request is issued only as the result of a turn whose
\* response intent is "confirmed"; no client action in any state creates a
\* BookingRecord after a turn whose intent was "booking_request" or
\* "confirmation_request"
C5_CreateOnlyWhenConfirmed ==
    \A k \in 1..Len(saves) :
        /\ saves[k].turn \in ReqIds
        /\ turns[saves[k].turn].resp.data.intent = Some("confirmed")

\* the snapshot handed to Commit by save k
Committed(k) == turns[saves[k].turn].resp.data.bookingDetails[1]

\* C6: every record submitted by Commit has status "Confirmed", and a null
\* or missing guests, time, name, cuisine or specialRequests in the confirmed
\* snapshot is replaced by 2, "19:00", "Guest", "Any" and "None" respectively
C6_CommitDefaults ==
    \A k \in 1..Len(saves) :
        saves[k].kind = "auto" =>
            LET d == Committed(k)
                p == saves[k].payload
            IN  /\ p.status = "Confirmed"
                /\ d.guests = Null => p.numberOfGuests = 2
                /\ d.time = Null => p.bookingTime = "19:00"
                /\ d.name = Null => p.customerName = "Guest"
                /\ d.cuisine = Null => p.cuisinePreference = Some("Any")
                /\ d.specialRequests = Null => p.specialRequests = "None"

\* a committed snapshot that lacks every defaulted field, stored with the defaults
C6_Witness ==
    \E k \in 1..Len(saves) :
        /\ saves[k].kind = "auto"
        /\ \A s \in {"guests", "time", "name", "cuisine", "specialRequests"} :
              Committed(k)[s] = Null
        /\ saves[k].payload.status = "Confirmed"
        /\ saves[k].payload.numberOfGuests = 2
        /\ saves[k].payload.customerName = "Guest"
        /\ saves[k].st = "ok"

-----------------------------------------------------------------------------
(* Properties of the turn's error handling *)

\* C11: when the extraction returns an intent value that is none of
\* booking_request, confirmation_request and confirmed, the turn response
\* carries intent = booking_request and the turn does not fail
C11_UnknownIntentDefaults ==
    \A id \in ReqIds :
        LET t == turns[id]
        IN  ( /\ build = "part_002"
              /\ t.pc = "done"
              /\ t.req.message # Null /\ WellShaped(t)
              /\ t.ai.intent # Null /\ t.ai.intent \notin Intents )
            => /\ t.resp.code = 200
               /\ t.resp.data.intent = Some("booking_request")

\* C12: a turn request with no utterance (message field absent) is rejected
\* without the extraction capability or the forecast capability being called
C12_MissingUtteranceRejected ==
    \A id \in ReqIds :
        LET t == turns[id]
        IN  ( /\ build = "part_002"
              /\ t.pc # "free"
              /\ t.req.message = Null )
            => /\ Extractions(t) = 0 /\ Queries(t) = 0
               /\ t.pc = "done" /\ t.resp.code # 200

-----------------------------------------------------------------------------
(* Properties of the client's error handling *)

\* nothing is in flight: no recognition, chat request, utterance, save or timer
Quiescent ==
    /\ rec = Null /\ awaiting = {} /\ tts = "off" /\ timers = 0
    /\ \A k \in 1..Len(saves) : saves[k].st # "pending"

\* the reply of turn id is in the message list
ReplyShown(id) ==
    \E i \in 1..Len(messages) :
        messages[i] = Msg("bot", turns[id].resp.data.reply[1])

\* C13: when the create-booking request of a confirmed turn fails, the agent
\* reply of that turn, already appended to the message list, is not removed
\* or altered, and the conversation continues: the client returns to a
\* state in which a further utterance can be submitted
C13_FailedSaveKeepsConversation ==
    \A k \in 1..Len(saves) :
        (saves[k].kind = "auto" /\ saves[k].st = "failed")
        => /\ ReplyShown(saves[k].turn)
           /\ (Quiescent /\ view = "chat") => MicEnabled

\* the create-booking request k of a confirmed turn fails in this step
SaveFails(k) ==
    /\ k \in 1..Len(saves)
    /\ saves[k].kind = "auto" /\ saves[k].st = "pending"
    /\ saves'[k].st = "failed"

\* C14 as stated: when the create-booking request of a confirmed turn fails,
\* the user is not informed: no agent message is appended to the message
\* list and nothing is spoken because of the failure
C14_FailedSaveSilent ==
    [][ \A k \in 1..Len(saves) : SaveFails(k) => (messages' = messages /\ tts' = tts) ]_vars

\* C14 amended: when the create-booking request of a confirmed turn fails,
\* nothing is spoken because of the failure and status and view stay as they
\* are; the App of App.jsx appends the agent message "There was an error
\* saving the booking." to the message list, Chat appends nothing
C14_FailedSaveUnspoken ==
    [][ \A k \in 1..Len(saves) :
          SaveFails(k) =>
             /\ tts' = tts /\ status' = status /\ view' = view /\ timers' = timers
             /\ messages' = IF client = "App2"
                            THEN Append(messages, Msg("bot", SaveErrorMsg))
                            ELSE messages ]_vars

\* App has shown the error message of a failed create-booking request and
\* has not spoken it
C14_Witness ==
    /\ client = "App2" /\ hasTTS
    /\ Len(saves) = 1 /\ saves[1].kind = "auto" /\ saves[1].st = "failed"
    /\ messages[Len(messages)] = Msg("bot", SaveErrorMsg)
    /\ Quiescent /\ status = "idle"

\* the chat response of turn id, a failure, is being handled by the client
HandlesFailure(id) == id \in awaiting /\ id \notin awaiting' /\ turns[id].resp.code = 500

\* C15: when a chat request fails (generic failure response), the client's
\* booking snapshot is the same as before the turn, no agent message is
\* appended for the turn, and no create-booking request is issued
C15_FailedTurnChangesNothing ==
    [][ \A id \in ReqIds :
          (client \in {"App1", "App2"} /\ HandlesFailure(id)) =>
             /\ bookingDetails' = bookingDetails
             /\ messages' = messages
             /\ saves' = saves ]_vars

-----------------------------------------------------------------------------
(* Properties of the advisory's activation *)

\* C16: in any turn whose extracted bookingDetails.date is null, no forecast
\* query is issued and the returned reply and bookingDetails are exactly
\* those produced by extraction
C16_NoDateNoForecast ==
    \A id \in ReqIds :
        LET t == turns[id]
        IN  ( /\ build = "part_002"
              /\ t.pc \in {"forecasting", "done"}
              /\ t.ai.bookingDetails # Null /\ t.ai.bookingDetails[1].date = Null )
            => /\ Queries(t) = 0
               /\ t.pc = "done" /\ t.resp.code = 200
               /\ t.resp.data.reply = t.ai.reply
               /\ t.resp.data.bookingDetails = t.ai.bookingDetails

\* a turn without date has been answered, its history free of weather talk
C16_Witness ==
    \E id \in ReqIds :
        LET t == turns[id]
        IN  /\ build = "part_002" /\ t.pc = "done"
            /\ t.ai.bookingDetails # Null /\ t.ai.bookingDetails[1].date = Null
            /\ t.ai.reply = Some(<<"Okay">>)
            /\ t.req.history # Null /\ Len(t.req.history[1]) = MaxHist
            /\ ~PriorWeather(t.req.history, AgentSenders)
            /\ t.resp = Ok(t.ai)

-----------------------------------------------------------------------------
(* Properties of the commit *)

\* the client has handled the response of turn id, which said "confirmed"
HandledConfirmed(id) ==
    /\ id < nextReq /\ id \notin awaiting
    /\ turns[id].pc = "done" /\ turns[id].resp.code = 200
    /\ turns[id].resp.data.intent = Some("confirmed")

Stored == {k \in 1..Len(saves) : saves[k].st = "ok"}

\* C17: two turns of the same session that both return intent = "confirmed",
\* whether one after the other or concurrently, each create a BookingRecord:
\* nothing in the commit step or the create endpoint deduplicates them, so a
\* state with two records for one conversation is reachable
C17_EveryConfirmationCommits ==
    client \in {"App2", "Chat"} =>
        /\ \A id \in ReqIds :
              HandledConfirmed(id) =>
                  \E k \in 1..Len(saves) : saves[k].kind = "auto" /\ saves[k].turn = id
        /\ Len(bookings) = Cardinality(Stored)

\* one session of App has two records of the same booking
C17_Witness ==
    /\ client = "App2" /\ session = 1
    /\ \E j, k \in Stored :
          /\ saves[j].turn # saves[k].turn
          /\ HandledConfirmed(saves[j].turn) /\ HandledConfirmed(saves[k].turn)
          /\ saves[j].payload = saves[k].payload
    /\ Len(bookings) = 2
    /\ bookings[1].customerName = bookings[2].customerName
    /\ bookings[1].bookingDate = bookings[2].bookingDate

\* the create-booking request that produced record b
SaveOf(b) == CHOOSE k \in Stored : NewBooking(saves[k].payload, b.id) = b

C19_WeatherInfoFolded ==
    \A i \in 1..Len(bookings) :
        LET b == bookings[i]
            t == turns[saves[SaveOf(b)].turn]
        IN  (t.weather # Null /\ t.weather[1].found)
            => b.weatherInfo = Some([condition |-> t.weather[1].condition,
                                     temp |-> t.weather[1].temp])

\* C20: every accepted turn request eventually gets a response even when an
\* external capability never answers: the extraction call that does not
\* return ends the turn with the failure response, the forecast call that
\* does not return ends it with a successful response without advisory
C20_EveryTurnAnswered ==
    (build = "part_002" /\ turns[1].pc \in {"extracting", "forecasting"})
        ~> (turns[1].pc = "done")

-----------------------------------------------------------------------------
(* Properties of concurrent turns *)

\* the response of a turn run alone: the request, the extraction output and
\* the forecast answer (if one was asked for) determine it
RunAlone(b, req, out, ans) ==
    LET parsed == IF out = Null THEN Null ELSE ParseExtraction(out[1])
    IN  IF parsed = Null \/ parsed[1].bookingDetails = Null THEN Fail500
        ELSE IF ~NeedsForecast(b, req, parsed[1]) THEN Ok(parsed[1])
        ELSE LET w == GetWeather(b, parsed[1].bookingDetails[1].date[1], ans[1])
                 sent == ApplyWeather(b, parsed[1], w)
             IN  IF sent = Null THEN Fail500 ELSE Ok(sent[1])

\* C21: the server keeps no variable that one turn writes and another turn
\* reads: for turns of two callers interleaved in any order, each turn's
\* response equals the response it gets when run alone with the same request
\* and the same answers of the external capabilities
C21_TurnsIndependent ==
    \A id \in 1..2 :
        LET t == turns[id]
        IN  t.pc = "done" => t.resp = RunAlone(build, t.req, t.raw, t.answer)

\* a turn has answered with an advisory while the turn of another caller,
\* with another request and another date, is waiting for its forecast
C21_Witness ==
    /\ build = "part_002"
    /\ turns[1].pc = "done" /\ turns[1].resp.code = 200
    /\ turns[1].weather # Null
    /\ turns[1].resp.data.reply # turns[1].ai.reply
    /\ turns[2].pc = "forecasting"
    /\ turns[2].req # turns[1].req
    /\ turns[2].ai.bookingDetails[1].date # turns[1].ai.bookingDetails[1].date

-----------------------------------------------------------------------------
(* Properties of the chat client *)

\* C22: within one chat session the client's message list is append-only:
\* across any step of an utterance submission, a chat response or an
\* auto-save completion, every message that was in the list is still in it
\* at the same position with the same sender and text
C22_MessagesAppendOnly ==
    [][(client \in {"App2", "Chat"} /\ session' = session)
         => /\ Len(messages') >= Len(messages)
            /\ SubSeq(messages', 1, Len(messages)) = messages]_vars

-----------------------------------------------------------------------------
(* Properties of the forecast query and of the extraction clean-up *)

\* C23: the forecast query uses the caller-supplied coordinates whenever the
\* request carries a location with numeric lat and lon, whatever their
\* values, and the fixed default location only when the request carries no
\* coordinates
C23_CallerCoordinatesUsed ==
    \A id \in ReqIds :
        LET t == turns[id]
            l == t.req.userLocation
        IN  (build = "part_002" /\ Queries(t) = 1 /\ t.req.message # Null /\ WellShaped(t))
            => t.query = IF l # Null
                         THEN [by |-> "coords", q |-> "", lat |-> l[1].lat, lon |-> l[1].lon]
                         ELSE DefaultCity

\* the forecast capability answered with an entry the build can use
Found(t) ==
    /\ t.answer # Null /\ t.weather # Null
    /\ IF build = "part_002" THEN t.weather[1].found
       ELSE t.answer[1].ok /\ t.answer[1].list # <<>>

\* C24: in a turn where the forecast is found, the forecast sentence is
\* appended to the reply if and only if the extracted reply does not contain
\* "weather" or "forecast" in any letter case; when the reply already
\* contains one of them, the returned reply equals the extracted reply
C24_SentenceIffReplyQuiet ==
    \A id \in ReqIds :
        LET t == turns[id]
        IN  ( /\ build \in {"index", "part_002"}
              /\ t.pc = "done" /\ WellShaped(t)
              /\ Found(t) )
            => /\ KeepsReply(t)
               /\ ForecastSentences(t) = IF SaysWeather(t.ai.reply[1]) THEN 0 ELSE 1
               /\ SaysWeather(t.ai.reply[1]) => t.resp.data.reply = t.ai.reply

\* C26: the forecast used for a booking date is the first entry, in the
\* order returned by the forecast capability, whose date-time string
\* contains the booking's calendar date; when no entry contains it the
\* result is "not found", and an entry of another date is never used
C26_FirstEntryOfDate ==
    \A id \in ReqIds :
        LET t == turns[id]
        IN  ( /\ build \in {"index", "part_002"}
              /\ t.pc = "done" /\ WellShaped(t)
              /\ t.answer # Null /\ t.answer[1].ok )
            => IF Matched(t)
               THEN /\ t.weather # Null
                    /\ t.weather[1].condition = MatchedEntry(t).description
                    /\ t.weather[1].temp = MatchedEntry(t).temp
               ELSE \/ t.weather = Null
                    \/ /\ ~t.weather[1].found
                       /\ \A i \in 1..Len(t.answer[1].list) :
                             t.weather[1].condition # t.answer[1].list[i].description

\* the structured reply inside a code fence, with or without a language tag,
\* or after a sentence of prose
Wrapped ==
    { <<"FENCEjson", "\n", "{json}", "\n", "FENCE">>,
      <<"FENCE", "\n", "{json}", "\n", "FENCE">>,
      <<"FENCEJSON", "\n", "{json}", "\n", "FENCE">>,
      <<"Here is the JSON:", "\n", "{json}">> }

\* C27: an extraction output consisting of a valid structured reply
\* surrounded by incidental formatting (a code fence with or without a
\* language tag, or surrounding prose) yields the same turn response as the
\* bare structured reply
C27_WrappersIgnored ==
    \A id \in ReqIds :
        LET t == turns[id]
        IN  ( /\ build = "part_002"
              /\ t.pc = "done" /\ t.req.message # Null
              /\ t.raw # Null /\ t.raw[1].chunks \in Wrapped )
            => t.resp = RunAlone(build, t.req, Bare(t.raw[1].data), t.answer)

\* C25: within a turn the extraction call and the forecast call never
\* overlap: the forecast query is issued only after the extraction call has
\* returned and been parsed, and the turn response is sent only after the
\* forecast query, when one is issued, has completed or failed
C25_CallsSequential ==
    \A id \in ReqIds :
        LET t == turns[id]
        IN  /\ t.pc = "extracting" => (t.calls = <<"extraction">> /\ t.raw = Null)
            /\ Queries(t) > 0
                 => /\ t.calls = <<"extraction", "forecast">>
                    /\ t.raw # Null /\ ParseExtraction(t.raw[1]) = Some(t.ai)
            /\ t.pc = "forecasting" => (Queries(t) = 1 /\ t.answer = Null)
            /\ (t.pc = "done" /\ Queries(t) > 0) => t.answer # Null

\* a turn that asked for the forecast, after the extraction, has answered
\* after the forecast call failed
C25_Witness ==
    \E id \in ReqIds :
        LET t == turns[id]
        IN  /\ build = "part_002" /\ t.pc = "done" /\ t.resp.code = 200
            /\ Queries(t) = 1 /\ Extractions(t) = 1
            /\ t.answer = Some(GetFailed)
            /\ t.resp.data.reply = t.ai.reply

\* C29: at most one chat request of a client session is outstanding at any
\* time: no second utterance can be submitted, by any sequence of mic taps
\* and recognition results, before the response to the previous utterance
\* has been handled
C29_OneRequestOutstanding ==
    client = "App2" => Cardinality(awaiting) <= 1

\* C28: the chat client's status always eventually returns to 'idle' after
\* it leaves it, after a recognition that ends with or without a result,
\* after a turn that succeeds or fails, and whether or not speech synthesis
\* is available: it does not stay forever in 'listening', 'processing',
\* 'speaking' or 'error'
C28_StatusReturnsToIdle ==
    (status # "idle") ~> (status = "idle")

\* C30: starting a new booking session resets the message list to the
\* single greeting and the snapshot to empty, and nothing belonging to an
\* earlier session changes the new session afterwards: with a user who does
\* nothing in the new session, no chat response, auto-save result or delayed
\* redirect of the earlier session appends a message, changes the snapshot
\* or closes the chat view
C30_NewSessionIsolated ==
    [][session' = 2
         => IF session = 1
            THEN /\ messages' = <<Msg("bot", Greeting)>>
                 /\ bookingDetails' = EmptyDetails
                 /\ view' = "chat"
            ELSE /\ messages' = messages
                 /\ bookingDetails' = bookingDetails
                 /\ view' = view]_vars

====
